---- MODULE Spec2Model ----
(***************************************************************************)
(* A state-machine model of KnowledgeSelectionModel                        *)
(* (src/KnowledgeSelection/Model/model.py): the hop loop of forward, the   *)
(* training and validation steps built on it, and the epoch-end            *)
(* aggregation of log_outputs.                                             *)
(*                                                                         *)
(* Numbers that the program holds as floats (averages, losses) are exact   *)
(* rationals here, a pair <<p, q>> in lowest terms with q > 0.             *)
(* Tensors over the batch are functions over 1..B, B the batch's number of *)
(* examples.  The node selector, the knowledge selector, reward_function   *)
(* and loss_function are imported by model.py; what they return is         *)
(* modelled after spec.md sections 4.2 - 4.5.                              *)
(***************************************************************************)
EXTENDS Integers, Sequences, FiniteSets, TLC

VARIABLES
    max_hops,                 \* self.max_hops
    early_stop,               \* self.early_stop
    samples,                  \* self.samples
    training,                 \* self.training (nn.Module mode flag)
    avg_pool_size,            \* self.avg_pool_size, a rational
    training_step_outputs,    \* self.training_step_outputs
    validation_step_outputs,  \* self.validation_step_outputs
    pc,                       \* "idle", "done" (a handler has finished), "raised"
    handler,                  \* the handler that has just finished
    dataloader_idx,           \* validation_step's dataloader_idx argument
    batch,                    \* the batch of the running call (its number of examples)
    threshold,                \* history: self.avg_pool_size when forward was called
    start,                    \* history: forward's locals when its hop loop was entered
    walk,                     \* history: forward's locals when its hop loop was left
    result,                   \* forward's result list
    trace,                    \* history: per executed hop, its pool, selection and mean_k
    ret,                      \* what forward returned
    logged,                   \* what the handler passed to self.log
    err                       \* the exception that ended the program, if any

vars == <<max_hops, early_stop, samples, training, avg_pool_size,
          training_step_outputs, validation_step_outputs, pc, handler,
          dataloader_idx, batch, threshold, start, walk, result, trace, ret, logged, err>>

config == <<max_hops, early_stop, samples>>

----------------------------------------------------------------------------
(* Bounds of the model *)

MaxHops == 2
MaxOutputs == 1
MaxValOutputs == 2
SplitSize == 2

(* The batches: every example has a graph of two candidate nodes, the root
   and the gold node, and two candidate knowledge items, one of them gold. *)
Nodes == {1, 2}
Items == {1, 2}
Root == 1
GoldNode == 2
GoldItem == 1

(* The NLL terms the selectors return: positive numbers the model under
   study only adds up and divides. *)
NLLVals == {1}

(* opt["reward"] is (NodeReward, 0, 0): the reward is its node-hit term *)
NodeReward == 1

----------------------------------------------------------------------------
(* Rationals *)

RECURSIVE GCD(_, _)
GCD(a, b) == IF b = 0 THEN a ELSE GCD(b, a % b)

Rat(p, q) == IF p = 0 THEN <<0, 1>> ELSE LET g == GCD(p, q) IN <<p \div g, q \div g>>

RatLess(a, b) == a[1] * b[2] < b[1] * a[2]

RatAdd(a, b) == Rat(a[1] * b[2] + b[1] * a[2], a[2] * b[2])

RatDiv(a, n) == Rat(a[1], a[2] * n)

RatInt(n) == <<n, 1>>

Zero == RatInt(0)

RECURSIVE SumSeq(_)
SumSeq(s) == IF s = <<>> THEN 0 ELSE Head(s) + SumSeq(Tail(s))

RECURSIVE RatSumSeq(_)
RatSumSeq(s) == IF s = <<>> THEN Zero ELSE RatAdd(Head(s), RatSumSeq(Tail(s)))

----------------------------------------------------------------------------
(* The collaborators of forward (spec.md 4.2 - 4.5) *)

(* inputlayer(batch["embedding"]): the encoded input, one value per example *)
InputLayer(B) == [i \in 1..B |-> 0]

(* Node selector: visited nodes are never chosen again; when every node is
   visited the walk stays on the current node with probability mass 0. *)
Unvisited(act) == {n \in Nodes : act[n] = 0}

NodeChoices(act, cur) == IF Unvisited(act) = {} THEN {cur} ELSE Unvisited(act)

NodeProb(act) == IF Unvisited(act) = {} THEN 0 ELSE 1

MarkVisited(act, n) == [act EXCEPT ![n] = 1]

AddScore(score, n) == [score EXCEPT ![n] = @ + 1]

Propagate(state, n) == state + n

(* Knowledge selector: a selection is a non-empty set of items (min_poolsize
   is 1), joined to the running pool; mean_k is the mean pool size. *)
Selections == (SUBSET Items) \ {{}}

(* a selector that keeps only the selection of the hop *)
KnowledgeSelectorReplace(pool, sel) == sel

KnowledgeSelector(pool, sel) == pool \cup sel

MeanK(pools) == Rat(SumSeq([i \in 1..Len(pools) |-> Cardinality(pools[i])]), Len(pools))

(* reward_function: per example the node-hit term; top-k accuracy is its
   "All" entry, the number of examples whose pool holds the gold item; the
   reward breakdown is a [3, B] array. *)
RewardFunction(node, pools) == [i \in 1..Len(node) |-> IF node[i] = GoldNode THEN NodeReward ELSE 0]

TopkAcc(pools) == Cardinality({i \in 1..Len(pools) : GoldItem \in pools[i]})

RewardDetail(reward) == <<reward, [i \in 1..Len(reward) |-> 0], [i \in 1..Len(reward) |-> 0]>>

(* loss_function: one loss per hop record, and a [hops, 3] array of the
   (walk, node, knowledge) breakdown. *)
WalkLoss(h) == SumSeq([i \in 1..Len(h.prob) |-> h.prob[i] * h.reward[i]])

LossFunction(res) ==
    [loss |-> [k \in 1..Len(res) |-> res[k].node_nll + res[k].knowledge_nll],
     loss_detail |-> [k \in 1..Len(res) |->
                        <<WalkLoss(res[k]), res[k].node_nll, res[k].knowledge_nll>>]]

----------------------------------------------------------------------------------------------------------------------------------------
(* forward, lines 57-92 *)

NoWalk == [input_info |-> <<>>, agent_state |-> <<>>, current_node |-> <<>>,
           current_activation |-> <<>>, current_score |-> <<>>,
           knowledge_pool |-> <<>>, current_reward |-> <<>>, mean_k |-> Zero,
           result |-> <<>>, trace |-> <<>>]

NoRet == [topk_acc |-> 0, pool_size |-> 0, reward |-> 0,
          reward_detail |-> <<>>, knowledge_pool |-> <<>>]

(* torch.ones for torch.zeros *)
InitActivationOnes(B) == [i \in 1..B |-> [n \in Nodes |-> 1]]

InitActivation(B) == [i \in 1..B |-> [n \in Nodes |-> 0]]

InitScore(B) == [i \in 1..B |-> [n \in Nodes |-> 0]]

InitNode(B) == [i \in 1..B |-> Root]

InitAgentState(input_info) == input_info

(* lines 58-68: the locals of forward when the hop loop is entered *)
ForwardLocals(B) ==
    [input_info |-> InputLayer(B),
     agent_state |-> InitAgentState(InputLayer(B)),
     current_node |-> InitNode(B),
     current_activation |-> InitActivation(B),
     current_score |-> InitScore(B),
     knowledge_pool |-> [i \in 1..B |-> {}],
     current_reward |-> <<>>,
     mean_k |-> Zero,
     result |-> <<>>,
     trace |-> <<>>]

(* range(0, max_hops + 1) *)
HopLoopContinuesInclusive(s, mh) == s <= mh

HopLoopContinues(s, mh) == s < mh

(* the comparison of line 83 turned round *)
EarlyStopBreakReversed(es, mk, avg) == es /\ RatLess(avg, mk)

EarlyStopBreak(es, mk, avg) == es /\ RatLess(mk, avg)

(* What the selectors can draw in one hop from locals w: the next node and
   the selected items of every example, and the two NLL terms. *)
HopInputs(w) ==
    LET B == Len(w.current_node)
    IN {in \in [nxt : [1..B -> Nodes], sel : [1..B -> Selections],
                node_nll : NLLVals, knowledge_nll : NLLVals] :
           \A i \in 1..B :
              in.nxt[i] \in NodeChoices(w.current_activation[i], w.current_node[i])}

(* lines 70-80: one hop, at loop index s, with the selectors' draws in *)
HopBody(w, s, in) ==
    LET B == Len(w.current_node)
        prob == [i \in 1..B |-> NodeProb(w.current_activation[i])]
        pools == [i \in 1..B |-> KnowledgeSelector(w.knowledge_pool[i], in.sel[i])]
        mean_k == MeanK(pools)
        reward == RewardFunction(in.nxt, pools)
    IN [w EXCEPT
          !.agent_state = [i \in 1..B |-> Propagate(@[i], in.nxt[i])],
          !.current_node = in.nxt,
          !.current_activation = [i \in 1..B |-> MarkVisited(@[i], in.nxt[i])],
          !.current_score = [i \in 1..B |-> AddScore(@[i], in.nxt[i])],
          !.knowledge_pool = pools,
          !.current_reward = reward,
          !.mean_k = mean_k,
          !.result = Append(@, [prob |-> prob, reward |-> reward,
                                node_nll |-> in.node_nll,
                                knowledge_nll |-> in.knowledge_nll]),
          !.trace = Append(@, [hop |-> s, pool |-> pools, sel |-> in.sel,
                               mean_k |-> mean_k])]

(* lines 69-84: the hop loop from loop index s on; the set of the locals it
   can end with, over all the draws of the selectors *)
RECURSIVE HopLoop(_, _, _, _, _)
HopLoop(w, s, mh, es, avg) ==
    IF ~HopLoopContinues(s, mh) THEN {w}
    ELSE UNION {LET w2 == HopBody(w, s, in)
                IN IF EarlyStopBreak(es, w2.mean_k, avg) THEN {w2}
                   ELSE HopLoop(w2, s + 1, mh, es, avg) : in \in HopInputs(w)}

PoolSize(pools) == SumSeq([i \in 1..Len(pools) |-> Cardinality(pools[i])])

ForwardReward(res, current_reward) == SumSeq(current_reward)

(* line 90 without the guard of line 89 *)
ForwardAvgPoolSizeAlways(tr, old, pool_size, n) == Rat(pool_size, n)

ForwardAvgPoolSize(tr, old, pool_size, n) == IF ~tr THEN Rat(pool_size, n) ELSE old

(* lines 86-92 *)
ForwardRet(w) ==
    [topk_acc |-> TopkAcc(w.knowledge_pool),
     pool_size |-> PoolSize(w.knowledge_pool),
     reward |-> ForwardReward(w.result, w.current_reward),
     reward_detail |-> RewardDetail(w.current_reward),
     knowledge_pool |-> w.knowledge_pool]

Idle == pc = "idle"

(* A call of forward by handler h on a batch of B examples: the state it
   leaves, without what h does with the return value. *)
ForwardCall(h, B, idx) ==
    \E w \in HopLoop(ForwardLocals(B), 0, max_hops, early_stop, avg_pool_size) :
    LET r == ForwardRet(w)
    IN /\ handler' = h
       /\ dataloader_idx' = idx
       /\ batch' = B
       /\ threshold' = avg_pool_size
       /\ start' = ForwardLocals(B)
       /\ walk' = w
       /\ result' = w.result
       /\ trace' = w.trace
       /\ ret' = r
       /\ avg_pool_size' = ForwardAvgPoolSize(training, avg_pool_size, r.pool_size,
                                              Len(w.knowledge_pool))
       /\ pc' = "done"

Forward(B) ==
    /\ Idle
    /\ ForwardCall("forward", B, 0)
    /\ logged' = <<>>
    /\ UNCHANGED <<config, training, training_step_outputs, validation_step_outputs, err>>

----------------------------------------------------------------------------
(* training_step, lines 97-106, and validation_step, lines 112-121 *)

(* num_steps = self.max_hops *)
NumStepsMaxHops(loss) == max_hops

NumSteps(loss) == Len(loss)

StepLoss(loss, num_steps) == Rat(SumSeq(loss), num_steps)

StepLossDetail(loss_detail, num_steps) ==
    [k \in 1..Len(loss_detail) |->
        [c \in 1..3 |-> RatDiv(RatInt(loss_detail[k][c]), num_steps)]]

StepOutput(r, res) ==
    LET lf == LossFunction(res)
        num_steps == NumSteps(lf.loss)
    IN [topk_acc |-> r.topk_acc,
        pool_size |-> r.pool_size,
        reward |-> r.reward,
        reward_detail |-> r.reward_detail,
        loss_detail |-> StepLossDetail(lf.loss_detail, num_steps),
        num_steps |-> num_steps]

StepLogged(name, res) ==
    LET lf == LossFunction(res)
    IN [name |-> name, loss |-> StepLoss(lf.loss, NumSteps(lf.loss))]

TrainingStep(B) ==
    /\ Idle
    /\ ForwardCall("training_step", B, 0)
    /\ logged' = <<StepLogged("Train Loss", result')>>
    /\ training_step_outputs' = Append(training_step_outputs, StepOutput(ret', result'))
    /\ UNCHANGED <<config, training, validation_step_outputs, err>>

NumLoaders(smp) == IF Len(smp) = 5 THEN 4 ELSE 2

ValidationStep(B, idx) ==
    /\ Idle
    /\ ForwardCall("validation_step", B, idx)
    /\ logged' = <<StepLogged("Val Loss", result')>>
    /\ validation_step_outputs' =
          Append(validation_step_outputs, [key |-> idx, value |-> StepOutput(ret', result')])
    /\ UNCHANGED <<config, training, training_step_outputs, err>>

----------------
(* log_outputs, lines 139-176 *)

NormGuard(cnt, num) == num > 0

CountDivisor(cnt, num) == cnt

(* acc, avg_pool_size and reward divided by cnt as well *)
SizeDivisorCnt(cnt, num) == cnt

SizeDivisor(cnt, num) == num

LossDetailSum(step_outputs, c) ==
    RatSumSeq([j \in 1..Len(step_outputs) |->
        RatSumSeq([k \in 1..Len(step_outputs[j].loss_detail) |->
            step_outputs[j].loss_detail[k][c]])])

RewardDetailSum(step_outputs, c) ==
    RatSumSeq([j \in 1..Len(step_outputs) |->
        Rat(SumSeq(step_outputs[j].reward_detail[c]), Len(step_outputs[j].reward_detail[c]))])

Normalize(x, d, guard) == IF guard THEN RatDiv(x, d) ELSE x

LogOutputs(step_outputs, num, tr, old) ==
    LET cnt == Len(step_outputs)
        guard == NormGuard(cnt, num)
        byCnt == CountDivisor(cnt, num)
        byNum == SizeDivisor(cnt, num)
        raised == guard /\ (byCnt = 0 \/ byNum = 0)
        avg == Normalize(RatInt(SumSeq([j \in 1..cnt |-> step_outputs[j].pool_size])),
                         byNum, guard)
    IN IF raised
       THEN [raised |-> TRUE]
       ELSE [raised |-> FALSE,
             loss_detail |-> [c \in 1..3 |->
                 Normalize(LossDetailSum(step_outputs, c), byCnt, guard)],
             reward_detail |-> [c \in 1..3 |->
                 Normalize(RewardDetailSum(step_outputs, c), byCnt, guard)],
             avg_steps |-> Normalize(
                 RatInt(SumSeq([j \in 1..cnt |-> step_outputs[j].num_steps])), byCnt, guard),
             acc |-> Normalize(
                 RatInt(SumSeq([j \in 1..cnt |-> step_outputs[j].topk_acc])), byNum, guard),
             avg_pool_size |-> avg,
             reward |-> Normalize(
                 RatInt(SumSeq([j \in 1..cnt |-> step_outputs[j].reward])), byNum, guard),
             self_avg_pool_size |-> IF tr THEN avg ELSE old]

LogEntry(split, num, keys, step_outputs, r) ==
    [split |-> split, num |-> num, keys |-> keys, step_outputs |-> step_outputs,
     loss_detail |-> r.loss_detail, reward_detail |-> r.reward_detail,
     avg_steps |-> r.avg_steps, acc |-> r.acc, avg_pool_size |-> r.avg_pool_size,
     reward |-> r.reward]

----------------------------------------------------------------------------
(* on_train_epoch_end, lines 108-110 *)

OnTrainEpochEnd ==
    /\ Idle
    /\ handler' = "on_train_epoch_end"
    /\ LET r == LogOutputs(training_step_outputs, samples[1], training, avg_pool_size)
       IN IF r.raised
          THEN /\ err' = "ZeroDivisionError"
               /\ pc' = "raised"
               /\ logged' = <<>>
               /\ UNCHANGED <<avg_pool_size, training_step_outputs>>
          ELSE /\ logged' = <<LogEntry("Train", samples[1], <<>>, training_step_outputs, r)>>
               /\ avg_pool_size' = r.self_avg_pool_size
               /\ training_step_outputs' = <<>>
               /\ pc' = "done"
               /\ err' = err
    /\ UNCHANGED <<config, training, validation_step_outputs, dataloader_idx, batch,
                   threshold, start, walk, result, trace, ret>>

----------------------------------------------------------------------------
(* on_validation_epoch_end, lines 123-137 *)

SplitNames(smp) ==
    IF Len(smp) = 5 THEN <<"Val_Seen", "Val_UnSeen", "Test_Seen", "Test_UnSeen">>
    ELSE <<"Val", "Test">>

IdxList(outs) == [i \in 1..Len(outs) |-> outs[i].key]

CountIdx(idx_list, j) == Cardinality({i \in 1..Len(idx_list) : idx_list[i] = j})

RECURSIVE CumIdx(_, _)
CumIdx(idx_list, j) ==
    IF j < 0 THEN 0 ELSE CountIdx(idx_list, j) + CumIdx(idx_list, j - 1)

SplitSlice(outs, j) ==
    SubSeq(outs, CumIdx(IdxList(outs), j - 1) + 1, CumIdx(IdxList(outs), j))

Values(slice) == [i \in 1..Len(slice) |-> slice[i].value]

RECURSIVE LogSplits(_, _, _, _, _)
LogSplits(j, outs, smp, tr, st) ==
    IF j = Len(SplitNames(smp)) THEN st
    ELSE LET slice == SplitSlice(outs, j)
             num == smp[j + 2]
             r == LogOutputs(Values(slice), num, tr, st.avg)
         IN IF r.raised
            THEN [st EXCEPT !.err = "ZeroDivisionError"]
            ELSE LogSplits(j + 1, outs, smp, tr,
                     [avg |-> r.self_avg_pool_size,
                      logged |-> Append(st.logged,
                          LogEntry(SplitNames(smp)[j + 1], num, IdxList(slice),
                                   Values(slice), r)),
                      err |-> st.err])

OnValidationEpochEnd ==
    /\ Idle
    /\ handler' = "on_validation_epoch_end"
    /\ LET st == LogSplits(0, validation_step_outputs, samples, training,
                           [avg |-> avg_pool_size, logged |-> <<>>, err |-> "none"])
       IN /\ logged' = st.logged
          /\ avg_pool_size' = st.avg
          /\ err' = st.err
          /\ IF st.err = "none"
             THEN validation_step_outputs' = <<>> /\ pc' = "done"
             ELSE UNCHANGED validation_step_outputs /\ pc' = "raised"
    /\ UNCHANGED <<config, training, training_step_outputs, dataloader_idx, batch,
                   threshold, start, walk, result, trace, ret>>

----------------------------------------------------------------------------
(* The trainer around the model *)

(* a handler returns: its locals and what it logged are gone *)
Return ==
    /\ pc = "done"
    /\ pc' = "idle"
    /\ handler' = "none"
    /\ dataloader_idx' = 0
    /\ batch' = 0
    /\ threshold' = Zero
    /\ start' = NoWalk
    /\ walk' = NoWalk
    /\ result' = <<>>
    /\ trace' = <<>>
    /\ ret' = NoRet
    /\ logged' = <<>>
    /\ UNCHANGED <<config, training, avg_pool_size, training_step_outputs,
                   validation_step_outputs, err>>

(* model.train() and model.eval() *)
SetMode ==
    /\ Idle
    /\ training' = ~training
    /\ UNCHANGED <<config, avg_pool_size, training_step_outputs, validation_step_outputs,
                   pc, handler, dataloader_idx, batch, threshold, start, walk, result,
                   trace, ret,
                   logged, err>>

(* The batches served: forward is called on batches of one or two examples,
   the dataloaders of the trainer serve batches of one example. *)
BatchSizes == {1, 2}

StepBatchSizes == {1}

(* the trainer holds at most `cap` step outputs before an epoch ends *)
Room(cap) == Len(training_step_outputs) + Len(validation_step_outputs) < cap

Loaders == 0..(NumLoaders(samples) - 1)

SamplesChoices == {<<SplitSize, SplitSize, 0>>,
                   <<0, 0, SplitSize, 0, 0>>}

InitModel ==
    /\ max_hops \in 1..MaxHops
    /\ early_stop \in BOOLEAN
    /\ training = TRUE
    /\ avg_pool_size = Zero
    /\ training_step_outputs = <<>>
    /\ validation_step_outputs = <<>>
    /\ pc = "idle"
    /\ handler = "none"
    /\ dataloader_idx = 0
    /\ batch = 0
    /\ threshold = Zero
    /\ start = NoWalk
    /\ walk = NoWalk
    /\ result = <<>>
    /\ trace = <<>>
    /\ ret = NoRet
    /\ logged = <<>>
    /\ err = "none"

Init == InitModel /\ samples \in SamplesChoices

(* The trainer: steps and epoch ends in any order and mode *)
Next ==
    \/ \E B \in StepBatchSizes : Room(MaxOutputs) /\ TrainingStep(B)
    \/ \E B \in StepBatchSizes, idx \in Loaders : Room(MaxOutputs) /\ ValidationStep(B, idx)
    \/ OnTrainEpochEnd
    \/ OnValidationEpochEnd
    \/ Return
    \/ SetMode

Spec == Init /\ [][Next]_vars

(* forward alone, called on batches of one or two examples in either mode *)
NextWalk ==
    \/ \E B \in BatchSizes : Forward(B)
    \/ Return
    \/ SetMode

SpecWalk == Init /\ [][NextWalk]_vars

(* A validation run over splits whose configured size is 0, so that
   log_outputs divides nothing *)
InitVal == InitModel /\ samples \in {<<SplitSize, 0, 0>>, <<SplitSize, 0, 0, 0, 0>>}

NextVal ==
    \/ \E B \in StepBatchSizes, idx \in Loaders : Room(MaxValOutputs) /\ ValidationStep(B, idx)
    \/ OnValidationEpochEnd
    \/ Return
    \/ SetMode

SpecVal == InitVal /\ [][NextVal]_vars


----------------------------------------------------------------------------
(* Claims *)

ForwardDone == pc = "done" /\ handler \in {"forward", "training_step", "validation_step"}

StepDone == pc = "done" /\ handler \in {"training_step", "validation_step"}

EpochDone == pc = "done" /\ handler \in {"on_train_epoch_end", "on_validation_epoch_end"}

(* C1: with early_stop enabled, a hop whose mean pool size is strictly below
   the threshold avg_pool_size the call started with is the last hop of the
   forward pass. *)
C1_EarlyStopEndsLoop ==
    (ForwardDone /\ early_stop) =>
        \A k \in 1..Len(trace) : RatLess(trace[k].mean_k, threshold) => k = Len(trace)

C1_Witness ==
    /\ ForwardDone
    /\ early_stop
    /\ Len(trace) < max_hops
    /\ RatLess(trace[Len(trace)].mean_k, threshold)

(* C2: the reward forward returns is the sum of the per-hop rewards of all
   the hops it executed. *)
C2_RewardIsRunningSum ==
    ForwardDone =>
        ret.reward = SumSeq([k \in 1..Len(result) |-> SumSeq(result[k].reward)])

(* C3: a training or validation step divides the loss and the loss breakdown
   by the number of hops its forward pass executed. *)
LastOutput ==
    IF handler = "training_step"
    THEN training_step_outputs[Len(training_step_outputs)]
    ELSE validation_step_outputs[Len(validation_step_outputs)].value

C3_DividedByExecutedHops ==
    StepDone =>
        LET n == Len(trace)
            lf == LossFunction(result)
        IN /\ logged[1].loss = Rat(SumSeq(lf.loss), n)
           /\ LastOutput.num_steps = n
           /\ \A k \in 1..n : \A c \in 1..3 :
                 LastOutput.loss_detail[k][c] = Rat(lf.loss_detail[k][c], n)

C3_Witness == StepDone /\ handler = "training_step" /\ Len(trace) < max_hops

C5_OnlyNonTraining == [][training => avg_pool_size' = avg_pool_size]_vars

(* C5 as amended: avg_pool_size is changed by a forward pass only in
   non-training mode and by log_outputs, at an epoch end, only in training
   mode. *)
C5_Amended ==
    [][avg_pool_size' # avg_pool_size =>
          \/ handler' \in {"forward", "training_step", "validation_step"} /\ ~training
          \/ handler' \in {"on_train_epoch_end", "on_validation_epoch_end"} /\ training]_vars

C5_Witness ==
    /\ pc = "done"
    /\ handler = "on_train_epoch_end"
    /\ training
    /\ avg_pool_size # Zero
    /\ avg_pool_size = logged[1].avg_pool_size

(* C6: a forward pass executes at least 1 and at most max_hops hops, leaves
   one result record per executed hop in hop order, and executes exactly
   max_hops hops when early_stop is disabled. *)
C6_HopCount ==
    ForwardDone =>
        /\ Len(result) >= 1
        /\ Len(result) <= max_hops
        /\ Len(trace) = Len(result)
        /\ \A k \in 1..Len(trace) : trace[k].hop = k - 1
        /\ ~early_stop => Len(result) = max_hops

C6_Witness == ForwardDone /\ ~early_stop /\ max_hops >= 2 /\ Len(result) = max_hops

(* C7: every metric log_outputs logs is its accumulated sum divided by the
   true count of what was accumulated: the number of step outputs for the
   per-output metrics, the number of examples for the per-example sums. *)
Examples(step_outputs) ==
    SumSeq([j \in 1..Len(step_outputs) |-> Len(step_outputs[j].reward_detail[1])])

FieldSum(step_outputs, f(_)) == SumSeq([j \in 1..Len(step_outputs) |-> f(step_outputs[j])])

PoolSizeOf(o) == o.pool_size

RewardOf(o) == o.reward

AccOf(o) == o.topk_acc

StepsOf(o) == o.num_steps

DividedBy(e, byOutputs, byExamples) ==
    LET so == e.step_outputs
    IN /\ e.reward = RatDiv(RatInt(FieldSum(so, RewardOf)), byExamples)
       /\ e.avg_pool_size = RatDiv(RatInt(FieldSum(so, PoolSizeOf)), byExamples)
       /\ e.acc = RatDiv(RatInt(FieldSum(so, AccOf)), byExamples)
       /\ e.avg_steps = RatDiv(RatInt(FieldSum(so, StepsOf)), byOutputs)
       /\ \A c \in 1..3 :
             /\ e.loss_detail[c] = RatDiv(LossDetailSum(so, c), byOutputs)
             /\ e.reward_detail[c] = RatDiv(RewardDetailSum(so, c), byOutputs)

C8_DivisionGuarded ==
    /\ err = "none"
    /\ EpochDone =>
          \A m \in 1..Len(logged) :
              (Len(logged[m].step_outputs) = 0 /\ logged[m].num > 0) =>
                  /\ logged[m].avg_steps = Zero
                  /\ logged[m].avg_pool_size = Zero
                  /\ \A c \in 1..3 : /\ logged[m].loss_detail[c] = Zero
                                     /\ logged[m].reward_detail[c] = Zero

(* C9: every forward call enters its hop loop with an all-zero visit
   activation and accumulated score, on the batch's root, with the agent
   state a copy of the encoded input that the hops leave untouched; and of
   the model's fields a forward call changes avg_pool_size at most. *)
FreshStart ==
    ForwardDone =>
        /\ start.input_info = InputLayer(batch)
        /\ walk.input_info = InputLayer(batch)
        /\ start.agent_state = start.input_info
        /\ \A i \in 1..batch :
              /\ start.current_node[i] = Root
              /\ \A n \in Nodes : /\ start.current_activation[i][n] = 0
                                  /\ start.current_score[i][n] = 0

C9_ResetPerCall ==
    /\ []FreshStart
    /\ [][handler' = "forward" =>
             UNCHANGED <<max_hops, early_stop, samples, training,
                         training_step_outputs, validation_step_outputs>>]_vars

C9_Witness ==
    /\ ForwardDone
    /\ training
    /\ avg_pool_size # Zero
    /\ Len(trace) >= 2
    /\ walk.agent_state # start.agent_state

(* C10: on_validation_epoch_end logs every recorded validation output under
   the split of the dataloader_idx it was recorded with, whatever the order
   of arrival, drops none, and leaves validation_step_outputs empty. *)
RECURSIVE OfKey(_, _)
OfKey(outs, j) ==
    IF outs = <<>> THEN <<>>
    ELSE IF Head(outs).key = j THEN <<Head(outs)>> \o OfKey(Tail(outs), j)
         ELSE OfKey(Tail(outs), j)

C10_EachOutputInItsSplit ==
    [][(pc = "idle" /\ handler' = "on_validation_epoch_end") =>
          /\ err' = "none"
          /\ validation_step_outputs' = <<>>
          /\ Len(logged') = NumLoaders(samples)
          /\ \A j \in Loaders :
                /\ logged'[j + 1].split = SplitNames(samples)[j + 1]
                /\ logged'[j + 1].keys = IdxList(OfKey(validation_step_outputs, j))
                /\ logged'[j + 1].step_outputs = Values(OfKey(validation_step_outputs, j))]_vars

====
